---- MODULE Spec2Model ----
(***************************************************************************)
(* Model of tools/get_features.py: the paginated fetch (get_features) and  *)
(* the chunked, resumable download loop (get_features_loop) that writes    *)
(* one parquet segment per chunk into the field's output directory.        *)
(*                                                                         *)
(* A table (DataFrame) is modelled by the sequence of its _id column.      *)
(* Python slices are 0-based and clamp at the end of the list.             *)
(***************************************************************************)
EXTENDS Integers, Sequences, FiniteSets, TLC

\* ---------------------------------------------------------------- bounds
MaxN == 3            \* longest identifier list
MaxChunk == 2        \* largest max_sources (chunk size)
MaxPage == 2         \* largest limit_per_query (page size)
MaxRuns == 2         \* runs of the loop against the same output directory
MaxOther == 1        \* rows held by segments of other regions in the directory
NumInstances == 1    \* Kowalski instances answering a query
MaxCcd == 3          \* largest ccd number of a ccd_range
MaxQuad == 2         \* largest quadrant number of a quad_range


VARIABLES
    \* inputs of the session
    source_ids, max_sources, limit_per_query, projection,
    missing,          \* identifier the remote catalog has no features for (0: none)
    \* the field's output directory
    segments,         \* this region's segments: iteration index -> _id column
    other_files,      \* _id column of the segments of other regions / suffixes
    \* get_features_loop
    pc, err, mode, restart, save, existing_ids, n_iterations, i, df,
    \* get_features
    ids, id, source_data, df_collection, dmdt_temp, dmdt_collection, dmdt,
    \* history: run_no counts the runs of the loop, the rest is of the current run
    run_no, resume_only, queries, calls, written, segs_at_start, prev_completed,
    \* run: the regions of the field. A range given as a single int v is <<v>>,
    \* a range given as a list is <<lo, hi>>
    whole_field, ccd_range, quad_range,
    iter_dct,         \* the keys of iter_dct in insertion order
    item,             \* position of `for k, v in iter_dct.items()`
    processed,        \* the calls made for regions, in order
    rpc

vars == << source_ids, max_sources, limit_per_query, projection, missing,
           segments, other_files,
           pc, err, mode, restart, save, existing_ids, n_iterations, i, df,
           ids, id, source_data, df_collection, dmdt_temp, dmdt_collection, dmdt,
           run_no, resume_only, queries, calls, written, segs_at_start,
           prev_completed,
           whole_field, ccd_range, quad_range, iter_dct, item, processed, rpc >>

regionvars == << whole_field, ccd_range, quad_range, iter_dct, item, processed, rpc >>
inputs == << source_ids, max_sources, limit_per_query, projection, missing, other_files >>
fetchvars == << ids, id, source_data, df_collection, dmdt_temp, dmdt_collection, dmdt >>

\* ---------------------------------------------------------------- helpers
Min(a, b) == IF a <= b THEN a ELSE b

\* Python s[a:b] for 0 <= a <= b
Slice(s, a, b) == SubSeq(s, a + 1, Min(b, Len(s)))

\* Concat that keeps only the last table
ConcatLast(ss) == IF ss = << >> THEN << >> ELSE ss[Len(ss)]

RECURSIVE Concat(_)
\* pd.concat(df_collection, axis=0)
Concat(ss) == IF ss = << >> THEN << >> ELSE Head(ss) \o Concat(Tail(ss))

Range(s) == { s[k] : k \in 1..Len(s) }

Unbound == [bound |-> FALSE, rows |-> << >>, dmdt_ok |-> FALSE]
EmptyList == [arr |-> FALSE, rows |-> << >>]      \* the Python list []

Projections == {"empty", "dmdt", "nodmdt"}
\* TypesApplied that leaves a projection naming dmdt untyped
TypesAppliedEmptyOnly(p) == p = "empty"

TypesApplied(p) == p = "empty" \/ p = "dmdt"


\* ---------------------------------------------------------------- remote service
\* rows the catalog returns for a "find" with filter _id $in page
Rows(page) == SelectSeq(page, LAMBDA x : x # missing)

\* what one Kowalski instance answers: "empty" is a response of length 0,
\* "error" a status other than success, "nodata" success without data
ResponseKinds == {"empty", "error", "nodata", "data"}

RECURSIVE ScanNoRaise(_, _, _, _)
\* ScanResponses without the raise on a success that carries no data
ScanNoRaise(responses, k, payload, sd) ==
    IF k > Len(responses) THEN [raise |-> FALSE, sd |-> sd]
    ELSE IF responses[k] = "data" THEN ScanNoRaise(responses, k + 1, payload, payload)
    ELSE ScanNoRaise(responses, k + 1, payload, sd)

RECURSIVE ScanResponses(_, _, _, _)
\* the loop `for name in responses.keys()`; sd is source_data so far
ScanResponses(responses, k, payload, sd) ==
    IF k > Len(responses) THEN [raise |-> FALSE, sd |-> sd]
    ELSE IF responses[k] = "nodata" THEN [raise |-> TRUE, sd |-> sd]
    ELSE IF responses[k] = "data" THEN ScanResponses(responses, k + 1, payload, payload)
    ELSE ScanResponses(responses, k + 1, payload, sd)

\* how the service answered the query as a whole
Answer(responses) ==
    IF \E k \in 1..Len(responses) : responses[k] = "nodata" THEN "nodata"
    ELSE IF \E k \in 1..Len(responses) : responses[k] = "data" THEN "success"
    ELSE "nonsuccess"

\* ---------------------------------------------------------------- get_features
\* np.vstack(dmdt_collection): [] becomes a (1,0) array, an extracted page an
\* (n,.,.,1) array; arrays of different rank cannot be stacked
VStack(coll) ==
    IF \A k \in 1..Len(coll) : coll[k].arr
    THEN [ok |-> TRUE, n |-> Len(Concat([k \in 1..Len(coll) |-> coll[k].rows]))]
    ELSE IF \A k \in 1..Len(coll) : ~coll[k].arr
    THEN [ok |-> TRUE, n |-> Len(coll)]
    ELSE [ok |-> FALSE, n |-> 0]

\* Page with the upper end of the slice one too far
PageOverlapping(list, k) ==
    Slice(list, k * limit_per_query, (k + 1) * limit_per_query + 1)

\* the page get_features asks for in its query number k (k = id)
Page(list, k) == Slice(list, k * limit_per_query, (k + 1) * limit_per_query)

\* LastPage that goes on when the list ends exactly at the page's end
LastPageStrict(k, list) == (k + 1) * limit_per_query > Len(list)

\* the test that ends the while loop
LastPage(k, list) == (k + 1) * limit_per_query >= Len(list)

\* whether np.expand_dims(np.array(df_temp['dmdt'].values)) can succeed on the
\* rows of a page: never without a dmdt column (a projection that leaves dmdt
\* out, or no row at all); otherwise it depends on the data
DmdtOutcomes(p, rows) ==
    IF p = "nodmdt" \/ rows = << >> THEN {FALSE} ELSE BOOLEAN

\* the dmdt extraction of one page: the new dmdt_temp
Extract(sd, old) == IF sd.dmdt_ok THEN [arr |-> TRUE, rows |-> sd.rows] ELSE old

Raise(e) == /\ pc' = "raised"
            /\ err' = e

\* the locals of get_features before a call of it
NoFetch ==
    /\ ids' = << >>
    /\ id' = 0
    /\ source_data' = Unbound
    /\ df_collection' = << >>
    /\ dmdt_temp' = EmptyList
    /\ dmdt_collection' = << >>
    /\ dmdt' = [bound |-> FALSE, n |-> 0]

\* body of get_features entered with the list `list`
CallFetch(list) ==
    /\ ids' = list
    /\ id' = 0
    /\ source_data' = Unbound
    /\ df_collection' = << >>
    /\ dmdt_temp' = EmptyList
    /\ dmdt_collection' = << >>
    /\ dmdt' = [bound |-> FALSE, n |-> 0]

\* one iteration of `while True`, and on the last page the code after the loop,
\* for a call made with projection p
FetchPageAs(p) ==
    /\ pc = "fetch"
    /\ \E responses \in [1..NumInstances -> ResponseKinds],
          ok \in DmdtOutcomes(p, Rows(Page(ids, id))) :
        LET page == Page(ids, id)
            payload == [bound |-> TRUE, rows |-> Rows(page), dmdt_ok |-> ok]
            scan == ScanResponses(responses, 1, payload, source_data)
            answer == Answer(responses)
            df_temp == scan.sd.rows
            extracted == IF scan.raise \/ ~scan.sd.bound
                            \/ (TypesApplied(p) /\ df_temp = << >>)
                         THEN "none"
                         ELSE IF scan.sd.dmdt_ok THEN "ok" ELSE "failed"
            entry == [chunk |-> i, ids |-> page, answer |-> answer,
                      rows |-> IF answer = "success" THEN payload.rows ELSE << >>,
                      extract |-> extracted]
            new_temp == Extract(scan.sd, dmdt_temp)
            new_dfs == Append(df_collection, df_temp)
            new_dmdts == Append(dmdt_collection, new_temp)
            stacked == VStack(new_dmdts)
        IN
        /\ queries' = Append(queries, entry)
        /\ IF scan.raise
           THEN /\ Raise("NoData")
                /\ UNCHANGED << id, source_data, df_collection, dmdt_temp,
                                dmdt_collection, dmdt, df >>
           ELSE IF ~scan.sd.bound
           THEN /\ Raise("UnboundSourceData")
                /\ UNCHANGED << id, source_data, df_collection, dmdt_temp,
                                dmdt_collection, dmdt, df >>
           ELSE IF TypesApplied(p) /\ df_temp = << >>
           THEN /\ Raise("AstypeKeyError")
                /\ source_data' = scan.sd
                /\ UNCHANGED << id, df_collection, dmdt_temp, dmdt_collection, dmdt, df >>
           ELSE /\ source_data' = scan.sd
                /\ df_collection' = new_dfs
                /\ dmdt_temp' = new_temp
                /\ dmdt_collection' = new_dmdts
                /\ IF ~LastPage(id, ids)
                   THEN /\ id' = id + 1
                        /\ UNCHANGED << pc, err, dmdt, df >>
                   ELSE /\ id' = id
                        /\ IF stacked.ok
                           THEN /\ df' = [bound |-> TRUE, rows |-> Concat(new_dfs)]
                                /\ dmdt' = [bound |-> TRUE, n |-> stacked.n]
                                /\ pc' = IF mode = "loop" THEN "save" ELSE "returned"
                                /\ err' = err
                           ELSE /\ Raise("VstackValueError")
                                /\ UNCHANGED << dmdt, df >>
    /\ UNCHANGED << regionvars, inputs, segments, mode, restart, save, existing_ids,
                    n_iterations, i, ids, run_no, resume_only, calls, written,
                    segs_at_start,
                    prev_completed >>

FetchPage == FetchPageAs(projection)

\* ---------------------------------------------------------------- get_features_loop
NoSegments == [k \in {} |-> << >>]

RECURSIVE ReadSegments(_, _)
\* the _id column of this region's segments, read file by file
ReadSegments(segs, k) ==
    IF k > MaxN THEN << >>
    ELSE (IF k \in DOMAIN segs THEN segs[k] ELSE << >>) \o ReadSegments(segs, k + 1)

\* DS.to_batches(columns=['_id']) over every parquet file of the directory
ReadIds(segs, others) == ReadSegments(segs, 0) \o others

\* whether the _id column can be read from the dataset. A segment written from
\* a table without rows has no columns: when every file of the directory is
\* such a segment the dataset has no _id field and the read fails; when only
\* some are, it depends on which file the dataset takes its schema from
ReadOutcomes(segs, others) ==
    IF \A k \in DOMAIN segs : segs[k] # << >> THEN {TRUE}
    ELSE IF others = << >> /\ \A k \in DOMAIN segs : segs[k] = << >> THEN {FALSE}
    ELSE BOOLEAN

FilesExist(segs, others) == DOMAIN segs # {} \/ others # << >>

\* ExistingIds that reads the directory even on a restart
ExistingIdsAlways(r, segs, others, readable) ==
    IF FilesExist(segs, others) /\ readable THEN ReadIds(segs, others) ELSE << >>

\* existing_ids = [] unless `not restart and files_exist`, then the _id column
ExistingIds(r, segs, others, readable) ==
    IF ~r /\ FilesExist(segs, others) /\ readable THEN ReadIds(segs, others) ELSE << >>

\* NIterations without the extra chunk for the remainder
NIterationsFloor(n, m) == n \div m

\* number of chunks, rounding up on a remainder
NIterations(n, m) == IF n % m # 0 THEN n \div m + 1 ELSE n \div m

\* source_ids[i*max_sources : min(n_sources, (i+1)*max_sources)]
Chunk(list, m, k) == Slice(list, k * m, Min(Len(list), (k + 1) * m))

\* the head of `for i in range(start_iteration, n_iterations)` reached with
\* index k: call func on chunk k, or leave the loop and `return df, outfile`
LoopHead(k, n_it, dfv, callsv, first) ==
    IF k < n_it
    THEN /\ i' = k
         /\ CallFetch(Chunk(source_ids, max_sources, k))
         /\ calls' = Append(callsv, Chunk(source_ids, max_sources, k))
         /\ pc' = "fetch"
         /\ err' = "none"
    ELSE /\ i' = k
         /\ calls' = callsv
         /\ IF first THEN NoFetch ELSE UNCHANGED fetchvars
         /\ IF dfv.bound
            THEN /\ pc' = "returned"
                 /\ err' = "none"
            ELSE Raise("UnboundDf")

Stopped == pc \in {"idle", "returned", "complete", "raised", "crashed"}

\* get_features_loop(get_features, source_ids, restart=r, save=True), as run
\* calls it, up to the first call of func
StartLoop(r) ==
    /\ Stopped
    /\ run_no < MaxRuns
    /\ \E readable \in ReadOutcomes(segments, other_files) :
       LET files_exist == FilesExist(segments, other_files)
           existing == ExistingIds(r, segments, other_files, readable)
           todo_source_ids == Range(source_ids) \ Range(existing)
       IN
       /\ run_no' = run_no + 1
       /\ resume_only' = (resume_only /\ ~r)
       /\ mode' = "loop"
       /\ restart' = r
       /\ save' = TRUE
       /\ existing_ids' = existing
       /\ queries' = << >>
       /\ written' = << >>
       /\ segs_at_start' = segments
       /\ prev_completed' = (mode = "loop" /\ save /\ pc \in {"returned", "complete"})
       /\ df' = [bound |-> FALSE, rows |-> << >>]
       /\ IF ~r /\ files_exist /\ ~readable
          THEN /\ Raise("ArrowInvalid")
               /\ calls' = << >>
               /\ n_iterations' = 0
               /\ i' = 0
               /\ NoFetch
          ELSE IF ~r /\ files_exist /\ todo_source_ids = {}
          THEN /\ pc' = "complete"
               /\ err' = "none"
               /\ calls' = << >>
               /\ n_iterations' = 0
               /\ i' = 0
               /\ NoFetch
          ELSE IF max_sources = 0
          THEN /\ Raise("ZeroDivisionError")
               /\ calls' = << >>
               /\ n_iterations' = 0
               /\ i' = 0
               /\ NoFetch
          ELSE /\ n_iterations' = NIterations(Len(source_ids), max_sources)
               /\ LoopHead(Len(existing) \div max_sources,
                           NIterations(Len(source_ids), max_sources),
                           [bound |-> FALSE, rows |-> << >>], << >>, TRUE)
    /\ UNCHANGED << regionvars, inputs, segments >>

\* `if save: write_parquet(df, f'{outfile}_iter_{i}.parquet')`, then the next
\* turn of the for loop
Save ==
    /\ pc = "save"
    /\ IF save
       THEN /\ segments' = (i :> df.rows) @@ segments
            /\ written' = Append(written, [index |-> i, rows |-> df.rows])
       ELSE UNCHANGED << segments, written >>
    /\ LoopHead(i + 1, n_iterations, df, calls, FALSE)
    /\ UNCHANGED << regionvars, inputs, mode, restart, save, existing_ids, n_iterations, df,
                    run_no, resume_only, queries, segs_at_start, prev_completed >>

\* run(write_results=False): get_features called on the whole list
StartDirect ==
    /\ Stopped
    /\ mode' = "direct"
    /\ CallFetch(source_ids)
    /\ calls' = << source_ids >>
    /\ queries' = << >>
    /\ written' = << >>
    /\ segs_at_start' = segments
    /\ prev_completed' = FALSE
    /\ df' = [bound |-> FALSE, rows |-> << >>]
    /\ pc' = "fetch"
    /\ err' = "none"
    /\ i' = 0
    /\ restart' = FALSE
    /\ save' = FALSE
    /\ existing_ids' = << >>
    /\ n_iterations' = 0
    /\ UNCHANGED << regionvars, inputs, segments, run_no, resume_only >>

\* the process is interrupted while a chunk is in progress
Interrupt ==
    /\ pc \in {"fetch", "save"}
    /\ mode = "loop"
    /\ pc' = "crashed"
    /\ UNCHANGED << regionvars, inputs, segments, err, mode, restart, save, existing_ids,
                    n_iterations, i, df, fetchvars, run_no, resume_only, queries,
                    calls,
                    written, segs_at_start, prev_completed >>

\* ---------------------------------------------------------------- specification
IdLists == { [k \in 1..n |-> k] : n \in 0..MaxN }
\* sources of other regions: identifiers that are not in this region's list
OtherLists == { [k \in 1..n |-> MaxN + k] : n \in 0..MaxOther }

\* nothing called yet
InitLocals ==
    /\ pc = "idle"
    /\ err = "none"
    /\ mode = "loop"
    /\ restart = FALSE
    /\ save = TRUE
    /\ existing_ids = << >>
    /\ n_iterations = 0
    /\ i = 0
    /\ df = [bound |-> FALSE, rows |-> << >>]
    /\ ids = << >>
    /\ id = 0
    /\ source_data = Unbound
    /\ df_collection = << >>
    /\ dmdt_temp = EmptyList
    /\ dmdt_collection = << >>
    /\ dmdt = [bound |-> FALSE, n |-> 0]
    /\ run_no = 0
    /\ resume_only = TRUE
    /\ queries = << >>
    /\ calls = << >>
    /\ written = << >>
    /\ segs_at_start = NoSegments
    /\ prev_completed = FALSE

\* run before it resolved its regions (one region given, as the loop is
\* entered for one region)
RegionIdle ==
    /\ whole_field = FALSE
    /\ ccd_range = << 1 >>
    /\ quad_range = << 1 >>
    /\ iter_dct = << >>
    /\ item = 1
    /\ processed = << >>
    /\ rpc = "start"

Init ==
    /\ source_ids \in IdLists
    /\ max_sources \in 0..MaxChunk
    /\ limit_per_query \in 1..MaxPage
    /\ projection \in Projections
    /\ missing \in 0..Len(source_ids)
    /\ segments = NoSegments
    /\ other_files \in OtherLists
    /\ InitLocals
    /\ RegionIdle

\* run(write_results=True): runs of the checkpointed loop, one after another
Next ==
    \/ \E r \in BOOLEAN : StartLoop(r)
    \/ FetchPage
    \/ Save
    \/ Interrupt

Spec == Init /\ [][Next]_vars

\* run(write_results=False): get_features alone
FetchNext ==
    \/ StartDirect
    \/ FetchPage

FetchSpec == Init /\ [][FetchNext]_vars

\* get_features alone, every remote call returning: an iteration of the
\* `while True` loop that was entered is completed
FetchFairSpec == FetchSpec /\ WF_vars(FetchPage)

\* ---------------------------------------------------------------- run: regions
\* Python range(a, b)
PyRange(a, b) == [j \in 1..(IF b > a THEN b - a ELSE 0) |-> a + j - 1]

\* `if type(r) == int: r = [r, r]`
AsRange(r) == IF Len(r) = 1 THEN << r[1], r[1] >> ELSE r

\* InclusiveRange without the + 1
HalfOpenRange(r) == PyRange(r[1], r[2])

\* range(r[0], r[1] + 1)
InclusiveRange(r) == PyRange(r[1], r[2] + 1)

TupleKey(ccd, quad) == [tuple |-> TRUE, ccd |-> ccd, quad |-> quad]
FieldKey == [tuple |-> FALSE, ccd |-> 0, quad |-> 0]

\* d[key] = ... on a dict: a new key goes last, a known key keeps its place
DictSet(d, key) ==
    IF \E j \in 1..Len(d) : d[j] = key THEN d ELSE Append(d, key)

RECURSIVE AddQuads(_, _, _)
\* the inner loop `for quad in range(...)` for one ccd
AddQuads(d, ccd, quads) ==
    IF quads = << >> THEN d
    ELSE AddQuads(DictSet(d, TupleKey(ccd, Head(quads))), ccd, Tail(quads))

RECURSIVE AddCcds(_, _, _)
\* the outer loop `for ccd in range(...)`
AddCcds(d, ccds, quads) ==
    IF ccds = << >> THEN d
    ELSE AddCcds(AddQuads(d, Head(ccds), quads), Tail(ccds), quads)

\* run up to the loop over iter_dct
Resolve ==
    /\ rpc = "start"
    /\ iter_dct' = IF ~whole_field
                   THEN AddCcds(<< >>, InclusiveRange(AsRange(ccd_range)),
                                InclusiveRange(AsRange(quad_range)))
                   ELSE << FieldKey >>
    /\ item' = 1
    /\ rpc' = IF iter_dct' = << >> THEN "returned" ELSE "loop"
    /\ UNCHANGED << whole_field, ccd_range, quad_range, processed >>
    /\ UNCHANGED << inputs, segments, pc, err, mode, restart, save, existing_ids,
                    n_iterations, i, df, fetchvars, run_no, resume_only, queries,
                    calls, written, segs_at_start, prev_completed >>

\* one turn of `for k, v in iter_dct.items()`: the call of get_features_loop
\* (or get_features) for the region, which returns or raises
ProcessRegion ==
    /\ rpc = "loop"
    /\ \E outcome \in {"returned", "raised"} :
        LET k == iter_dct[item]
            ccd_quad == IF k.tuple THEN << k.ccd, k.quad >> ELSE << 0, 0 >>
        IN
        /\ processed' = Append(processed, [whole_field |-> whole_field,
                                           ccd |-> ccd_quad[1], quad |-> ccd_quad[2]])
        /\ IF outcome = "raised"
           THEN /\ rpc' = "raised"
                /\ item' = item
           ELSE /\ item' = item + 1
                /\ rpc' = IF item + 1 > Len(iter_dct) THEN "returned" ELSE "loop"
    /\ UNCHANGED << whole_field, ccd_range, quad_range, iter_dct >>
    /\ UNCHANGED << inputs, segments, pc, err, mode, restart, save, existing_ids,
                    n_iterations, i, df, fetchvars, run_no, resume_only, queries,
                    calls, written, segs_at_start, prev_completed >>

Ranges(max) == { << v >> : v \in 1..max } \cup { << lo, hi >> : lo, hi \in 1..max }

RegionInit ==
    /\ source_ids = << >>
    /\ max_sources = 1
    /\ limit_per_query = 1
    /\ projection = "empty"
    /\ missing = 0
    /\ segments = NoSegments
    /\ other_files = << >>
    /\ InitLocals
    /\ whole_field \in BOOLEAN
    /\ ccd_range \in Ranges(MaxCcd)
    /\ quad_range \in Ranges(MaxQuad)
    /\ iter_dct = << >>
    /\ item = 1
    /\ processed = << >>
    /\ rpc = "start"

RegionNext ==
    \/ Resolve
    \/ ProcessRegion

RegionSpec == RegionInit /\ [][RegionNext]_vars

\* ================================================================ claims
CeilDiv(n, m) == (n + m - 1) \div m

\* the identifiers at positions lo+1 .. min(hi, Len(list)) of a list
Positions(list, lo, hi) ==
    [j \in 1..(IF Len(list) >= hi THEN hi - lo
               ELSE IF Len(list) > lo THEN Len(list) - lo ELSE 0) |-> list[lo + j]]

\* the rows the service returned, query by query
Served == Concat([k \in 1..Len(queries) |-> queries[k].rows])

\* the pages sent, query by query
Sent == Concat([k \in 1..Len(queries) |-> queries[k].ids])

WrittenIndices == { written[w].index : w \in 1..Len(written) }

\* the loop ran through all its iterations
LoopFinished == pc = "returned" \/ (pc = "raised" /\ err = "UnboundDf")

\* every segment of this region holds at least one row (and so an _id column)
RowsInEverySegment == \A k \in DOMAIN segments : segments[k] # << >>

\* C1: after a run of the loop that ran to completion, a run with the same
\* identifier list and resume enabled issues no query, writes no segment and
\* reports that the dataset is already complete (stated for directories whose
\* segments all hold rows, where reading the _id column back cannot fail)
C1_ResumeNoOp ==
    (prev_completed /\ ~restart /\ max_sources >= 1 /\ pc # "idle"
                    /\ RowsInEverySegment)
        => (pc = "complete" /\ queries = << >> /\ written = << >>)

\* C2: a resumed run that returns has fetched and written every chunk that
\* holds an identifier found in no existing segment
C2_SkipOnlyFetched ==
    (pc = "returned" /\ ~restart /\ max_sources >= 1)
        => \A k \in 0..(CeilDiv(Len(source_ids), max_sources) - 1) :
             LET chunk == Positions(source_ids, k * max_sources, (k + 1) * max_sources)
             IN  ~(Range(chunk) \subseteq Range(existing_ids))
                     => /\ \E c \in 1..Len(calls) : calls[c] = chunk
                        /\ k \in WrittenIndices

\* C3: when every run so far had resume enabled, a run writes only segments
\* whose index did not exist when it started (stated for directories whose
\* segments all hold rows)
C3_AppendOnly ==
    (resume_only /\ pc # "idle" /\ RowsInEverySegment)
        => \A k \in WrittenIndices : k \notin DOMAIN segs_at_start

\* C4: the k-th query of get_features carries the slice [k*P, (k+1)*P) of its
\* list, and when it returns the pages in order make up the list exactly
C4_PagesAreSlices ==
    /\ \A k \in 1..Len(queries) :
          queries[k].ids = Positions(ids, (k - 1) * limit_per_query, k * limit_per_query)
    /\ pc = "returned" => Sent = ids

C4_Witness ==
    /\ pc = "returned"
    /\ mode = "direct"
    /\ Len(queries) >= 2
    /\ Len(ids) % limit_per_query # 0

\* C5: a run that starts from an empty directory calls the fetch on the slices
\* [i*C, min(N,(i+1)*C)) in order, and once through its loop it has made
\* ceil(N/C) calls and written exactly the segments 0..ceil(N/C)-1
C5_ChunkCount ==
    (pc # "idle" /\ max_sources >= 1 /\ segs_at_start = NoSegments
                 /\ other_files = << >>)
        => /\ \A k \in 1..Len(calls) :
                calls[k] = Positions(source_ids, (k - 1) * max_sources, k * max_sources)
           /\ LoopFinished =>
                /\ Len(calls) = CeilDiv(Len(source_ids), max_sources)
                /\ Len(written) = Len(calls)
                /\ \A k \in 1..Len(written) : written[k].index = k - 1
                /\ DOMAIN segments = 0..(Len(calls) - 1)

C5_Witness ==
    /\ pc = "returned"
    /\ segs_at_start = NoSegments
    /\ other_files = << >>
    /\ Len(calls) >= 2
    /\ Len(source_ids) % max_sources # 0
    /\ DOMAIN segments = {0, 1}

\* C6: a query answered with a status other than success is the last query of
\* the run: the fetch raises, returns nothing, and the chunk gets no segment
C6_NonSuccessAborts ==
    \A k \in 1..Len(queries) :
        queries[k].answer = "nonsuccess"
            => /\ k = Len(queries)
               /\ pc = "raised"
               /\ ~dmdt.bound
               /\ queries[k].chunk \notin WrittenIndices

\* C7: a query answered with success but no data is the last query of the run:
\* the fetch raises at once and returns nothing, no segment is written for that
\* chunk or a later one, and the segments of the directory are those that
\* existed at the start and those written for earlier chunks, as written
C7_NoDataFailsFast ==
    \A k \in 1..Len(queries) :
        queries[k].answer = "nodata"
            => /\ k = Len(queries)
               /\ pc = "raised"
               /\ err = "NoData"
               /\ ~dmdt.bound
               /\ \A j \in WrittenIndices : j < queries[k].chunk
               /\ DOMAIN segments = DOMAIN segs_at_start \cup WrittenIndices
               /\ \A w \in 1..Len(written) : segments[written[w].index] = written[w].rows
               /\ \A j \in DOMAIN segs_at_start \ WrittenIndices :
                      segments[j] = segs_at_start[j]

C7_Witness ==
    /\ pc = "raised"
    /\ err = "NoData"
    /\ written # << >>
    /\ segs_at_start # NoSegments
    /\ queries[Len(queries)].chunk >= 1

\* C8: the table get_features returns is the rows the service returned for its
\* queries, in page order, each once
C8_TableIsPagesInOrder ==
    pc = "returned" => df.rows = Served

\* C9: the table get_features returns has as many rows as the leading
\* dimension of the dmdt array it returns
C9_TableDmdtAligned ==
    pc = "returned" => Len(df.rows) = dmdt.n

\* C10: when every query is answered with data, a page whose dmdt extraction
\* fails contributes the empty placeholder, the fetch still returns, and the
\* table holds the rows of every page
C10_DmdtPlaceholder ==
    (\A k \in 1..Len(queries) : queries[k].answer = "success")
        => /\ \A k \in 1..Len(dmdt_collection) :
                queries[k].extract = "failed" => dmdt_collection[k] = EmptyList
           /\ err # "VstackValueError"
           /\ pc = "returned" => df.rows = Served

\* the run started on a directory without any file
EmptyAtStart == segs_at_start = NoSegments /\ other_files = << >>

\* C11: with a non-empty list and a chunk size of 0 or larger than the list, a
\* run that starts at chunk 0 (restart, or nothing in the directory) calls the
\* fetch once, on the whole list, and when it returns it has written exactly
\* one segment
C11_SingleChunk ==
    (pc # "idle" /\ Len(source_ids) >= 1
                 /\ (max_sources = 0 \/ max_sources > Len(source_ids))
                 /\ (restart \/ EmptyAtStart))
        => /\ calls = << source_ids >>
           /\ pc = "returned" => Len(written) = 1

\* the identifiers held by the directory when the run started
IdsAtStart == Range(ReadIds(segs_at_start, other_files))

\* C12: a resumed run for which no identifier of the list remains to be
\* fetched returns without raising, issues no query and writes no segment
\* (stated for directories whose segments all hold rows)
C12_NothingToDo ==
    (pc # "idle" /\ ~restart /\ max_sources >= 1
                 /\ (\A k \in DOMAIN segs_at_start : segs_at_start[k] # << >>)
                 /\ Range(source_ids) \ IdsAtStart = {})
        => /\ pc \in {"complete", "returned"}
           /\ queries = << >>
           /\ written = << >>

\* the identifiers of chunk k of the input list
ChunkIds(k) == Range(Positions(source_ids, k * max_sources, (k + 1) * max_sources))

\* the identifiers of the rows the service returned for the queries of chunk k
ServedIds(k) ==
    UNION { Range(queries[q].rows) : q \in { x \in 1..Len(queries) : queries[x].chunk = k } }

\* C13 as stated: the identifiers read back from a written segment are the
\* identifiers of its chunk (stated for runs in which every query was
\* answered with success)
C13_SegmentIsChunk ==
    (\A q \in 1..Len(queries) : queries[q].answer = "success")
        => \A w \in 1..Len(written) :
             Range(segments[written[w].index]) = ChunkIds(written[w].index)

\* C13 amended: the identifiers read back from a written segment are those of
\* the rows the service returned for the chunk's queries, all of them
\* identifiers of the chunk
C13_SegmentIsServed ==
    \A w \in 1..Len(written) :
        /\ Range(segments[written[w].index]) = ServedIds(written[w].index)
        /\ Range(segments[written[w].index]) \subseteq ChunkIds(written[w].index)

C13_Witness ==
    /\ Len(written) >= 1
    /\ limit_per_query = 1
    /\ Len(calls[1]) = 2
    /\ missing \in ChunkIds(written[1].index)
    /\ Cardinality(Range(segments[written[1].index])) = 1
    /\ \A q \in 1..Len(queries) : queries[q].answer = "success"

\* C15: a run with restart set never reports the dataset complete and calls
\* func on chunk 0, 1, ... in order whatever the directory holds; a run that
\* gets through its loop made ceil(N/C) calls
C15_RestartFromZero ==
    (pc # "idle" /\ restart /\ max_sources >= 1)
        => /\ pc # "complete"
           /\ existing_ids = << >>
           /\ \A k \in 1..Len(calls) :
                calls[k] = Positions(source_ids, (k - 1) * max_sources, k * max_sources)
           /\ pc \in {"fetch", "save"} => Len(calls) = i + 1
           /\ pc = "returned" => Len(calls) = CeilDiv(Len(source_ids), max_sources)

C15_Witness ==
    /\ restart
    /\ pc = "returned"
    /\ Len(calls) = 2
    /\ DOMAIN segs_at_start = {0, 1}
    /\ Range(source_ids) \subseteq Range(ReadIds(segs_at_start, other_files))

\* the regions asked for: every (ccd, quad) within the two ranges, bounds included
RegionsAsked ==
    { << c, q >> : c \in ccd_range[1]..ccd_range[Len(ccd_range)],
                   q \in quad_range[1]..quad_range[Len(quad_range)] }

\* C16: the regions run processes are regions within the inclusive ranges,
\* none twice, and a run that returns has processed every one of them; with
\* whole_field it processes the whole field, once
C16_RegionsInclusive ==
    /\ \A a, b \in 1..Len(processed) : a # b => processed[a] # processed[b]
    /\ ~whole_field =>
         /\ \A j \in 1..Len(processed) :
              << processed[j].ccd, processed[j].quad >> \in RegionsAsked
         /\ rpc = "returned" =>
              { << processed[j].ccd, processed[j].quad >> : j \in 1..Len(processed) }
                  = RegionsAsked
    /\ whole_field =>
         /\ Len(processed) <= 1
         /\ \A j \in 1..Len(processed) : processed[j].ccd = 0 /\ processed[j].quad = 0
         /\ rpc = "returned" => Len(processed) = 1

C16_Witness ==
    /\ rpc = "returned"
    /\ ~whole_field
    /\ ccd_range = << 2, 3 >>
    /\ quad_range = << 2 >>
    /\ Len(processed) = 2
    /\ processed[2].ccd = 3

\* the positions in the query log of the queries made for chunk k
QueriesOf(k) == { q \in 1..Len(queries) : queries[q].chunk = k }

\* increasing chunk indices, and no chunk queried and left unwritten but the
\* one in progress
WritesInOrder ==
    /\ \A a, b \in 1..Len(written) : a < b => written[a].index < written[b].index
    /\ \A q \in 1..Len(queries) :
         \/ queries[q].chunk \in WrittenIndices
         \/ queries[q].chunk = i /\ \A w \in 1..Len(written) : written[w].index < i

\* C17: a written segment's chunk had every one of its page queries answered
\* with success, segments are written in increasing chunk index, and at most
\* one chunk is queried but not yet written
C17_WriteAtBoundaries ==
    mode = "loop" =>
        /\ WritesInOrder
        /\ \A w \in 1..Len(written) :
             /\ Cardinality(QueriesOf(written[w].index))
                    = CeilDiv(Len(Chunk(source_ids, max_sources, written[w].index)),
                              limit_per_query)
             /\ \A q \in QueriesOf(written[w].index) : queries[q].answer = "success"

\* max(1, ceil(N/P)) for the list get_features was called with
QueriesExpected ==
    IF Len(ids) = 0 THEN 1 ELSE CeilDiv(Len(ids), limit_per_query)

\* C18 as stated: a fetch that has ended has issued exactly max(1, ceil(N/P))
\* queries (stated for fetches that returned or raised for a lack of data)
C18_ExactQueries ==
    (pc \in {"returned", "raised"} /\ err \in {"none", "NoData"})
        => Len(queries) = QueriesExpected

\* one query at a time, page after page, none for a page past the end
QueriesInOrder ==
    /\ Len(queries) <= QueriesExpected
    /\ pc = "fetch" => Len(queries) = id
    /\ pc = "returned" => Len(queries) = QueriesExpected
    /\ \A q \in 1..Len(queries) :
         /\ queries[q].ids = Positions(ids, (q - 1) * limit_per_query, q * limit_per_query)
         /\ queries[q].ids = << >> => Len(ids) = 0

\* C18 amended: a fetch whose remote calls return ends, by returning or by
\* raising; it issues its queries one at a time in increasing page order, none
\* for a page past the end of the list, at most max(1, ceil(N/P)) of them and
\* exactly that many when it returns
C18_Terminates ==
    /\ [](QueriesInOrder)
    /\ (pc = "fetch") ~> (pc \in {"returned", "raised"})

C18_Witness ==
    /\ pc = "returned"
    /\ Len(ids) = 2 * limit_per_query
    /\ Len(queries) = 2
    /\ queries[2].answer = "success"

\* what a resume over this region's own segments alone would read
OwnIds == ReadIds(segs_at_start, << >>)

\* C19: a resume behaves as it would on a directory holding this region's
\* segments only: it reports complete, or starts at the chunk, that the
\* region's own segments determine (stated for readable directories and
\* non-empty identifier lists)
C19_OwnSegmentsOnly ==
    (pc # "idle" /\ ~restart /\ max_sources >= 1 /\ err # "ArrowInvalid"
                 /\ source_ids # << >>
                 /\ \A k \in DOMAIN segs_at_start : segs_at_start[k] # << >>)
        => LET complete == segs_at_start # NoSegments
                              /\ Range(source_ids) \subseteq Range(OwnIds)
               start == Len(OwnIds) \div max_sources
           IN /\ pc = "complete" => complete
              /\ complete => calls = << >>
              /\ calls # << >> => calls[1] = Chunk(source_ids, max_sources, start)
              /\ (calls = << >> /\ ~complete)
                    => start >= NIterations(Len(source_ids), max_sources)

\* the projection that names every configured feature: dmdt is one of the
\* configured features, so it is a projection naming dmdt
FullProjection == "dmdt"

====
